---- MODULE Spec2Model ----
(***************************************************************************)
(* Connection-state synchronisation of the Connect page                    *)
(* (src/frontend/src/pages/Connect.tsx): the published snapshot `state`,   *)
(* the status fetch (initial load and poll), the EventSource push stream   *)
(* with its reconnect timer, and the QR image effect with its object URLs. *)
(*                                                                         *)
(* Strings of the program are modelled as strings; JavaScript null is the  *)
(* string Null, an absent (undefined) number is Undefined, and              *)
(* connectionStartTime uses 0 for null (both are falsy in the code).       *)
(* A state update and the effects React runs for the render it causes are  *)
(* one step.                                                               *)
(***************************************************************************)
EXTENDS Integers, FiniteSets, Sequences, TLC

\* ---------------------------------------------------------------- bounds
MaxCount == 2
MaxPolls == 1
MaxQrFetch == 1
MaxBlobs == 2
MaxConns == 3
MaxEntries == 2
MaxElapsed == 2
MaxLog == 3
MaxCmds == 2

\* ------------------------------------------------------------- constants
Null == "null"
Undefined == 0 - 1
NoCount == 0 - 2

ShortPoll == 2000
LongPoll == 30000
ReconnectDelay == 2000
NumTips == 3

\* WhatsAppState.status
Statuses ==
  {"disconnected", "initializing", "qr_ready", "connecting",
   "authenticating", "loading_chats", "connected", "error"}

\* A status outside the declared union, as untyped JSON can carry it.
UnknownStatus == "unknown"

AllStatuses == Statuses \cup {UnknownStatus}

\* QR payload strings by prefix; the raw payload is neither data: nor http.
DataPayloads == {"data:A"}
HttpPayloads == {"http://A"}
RawPayloads == {"A", "B"}
BlobUrls == <<"blob:1", "blob:2", "blob:3", "blob:4">>

IsBlobUrl(s) == \E i \in DOMAIN BlobUrls : BlobUrls[i] = s

\* String.prototype.startsWith for the three prefixes the code tests.
StartsWith(s, prefix) ==
  CASE prefix = "data:" -> s \in DataPayloads
    [] prefix = "http" -> s \in HttpPayloads
    [] prefix = "blob:" -> IsBlobUrl(s)
    [] OTHER -> FALSE

\* JavaScript truthiness of a string-or-null value.
Truthy(s) == s # Null

CandCounts == {Undefined} \cup (0..MaxCount)

\* A WhatsAppState value; f is <<qrCode, user, error, connectionStartTime>>.
Snapshot(st, f, n) ==
  [status |-> st, qrCode |-> f[1], user |-> f[2], error |-> f[3],
   messagesProcessed |-> n, connectionStartTime |-> f[4]]

Bare == <<Null, Null, Null, 0>>

\* Payloads (json.data, parsed event data) for the merge: every status with
\* every count, with fields that fit the status or are left over from another
\* one.  qr_ready carries an inline image here.
MergeShapes ==
  { Bare,
    <<"data:A", Null, Null, 1>>,
    <<Null, "user", Null, 1>>,
    <<Null, Null, "err", 0>>,
    <<"data:A", "user", "err", 1>> }

MergeCandidates ==
  { Snapshot(st, f, n) : st \in AllStatuses, f \in MergeShapes, n \in CandCounts }
  \ { Snapshot("qr_ready", f, n) : f \in {g \in MergeShapes : g[1] = Null}, n \in CandCounts }

\* Payloads for the QR image effect: every kind of qrCode, in and out of
\* qr_ready.
QrStatuses == {"disconnected", "initializing", "qr_ready", "authenticating"}
QrCodes == {Null} \cup DataPayloads \cup HttpPayloads \cup RawPayloads

QrCandidates ==
  { Snapshot(st, <<q, Null, Null, 0>>, 0) : st \in QrStatuses, q \in QrCodes }

\* useState initial value
InitialState == Snapshot("disconnected", Bare, 0)

VARIABLES
  state,             \* useState<WhatsAppState>
  loading,           \* useState(true)
  qrImageUrl,        \* useState<string | null>(null)
  sseRef,            \* useRef<EventSource | null>: connection id, 0 for null
  reconnectTimeoutRef, \* useRef: timer id, 0 for null
  mounted,           \* the component is mounted
  openConns,         \* EventSource objects not closed
  nextConn,          \* id of the next EventSource constructed
  timers,            \* reconnect timeouts set and neither fired nor cleared
  pollInterval,      \* period of the polling setInterval, 0 when cleared
  fetchLoud,         \* fetchStatus(true) calls awaiting their response
  fetchQuiet,        \* fetchStatus(false) calls awaiting their response
  qrInterval,        \* the 55 s setInterval(loadQr) exists
  qrFetch,           \* loadQr calls awaiting their response
  liveBlobs,         \* object URLs created and not revoked
  nextBlob,          \* index of the next object URL created
  revokeCalls,       \* number of URL.revokeObjectURL calls
  qrEntries,         \* number of times state.status became qr_ready
  epoch,             \* parity of the number of payloads applied to state
  lastSource,        \* "push" or "poll": where the last applied payload came from
  lastCount,         \* data.messagesProcessed of the last applied payload, NoCount before
  srv,               \* status held by the backend
  captured,          \* status the backend put in the response of each fetch in flight
  arrivals,          \* the payloads applied so far, in arrival order (when recorded)
  pollFailedAt,      \* epoch at the last failed fetchStatus(false), Undefined before (when recorded)
  cleanupOrder,      \* the effect cleanups the unmount ran, in the order they ran (when recorded)
  actionLoading,     \* useState(false)
  cmdPost,           \* command handlers awaiting the response of their POST
  cmdFetch,          \* command handlers awaiting their fetchStatus()
  reconnectDelay,    \* delay of the timeout reconnectTimeoutRef holds, 0 for none
  droppedAt,         \* epoch at the last push event JSON.parse rejected, Undefined before
  pollElapsed,       \* ms since the polling interval was set or last fired
  clearedAfter,      \* ms the interval the polling effect last cleared had run
  elapsedTimer,      \* the 1 s elapsed-time setInterval exists
  elapsedTime,       \* useState(0)
  tipTimer,          \* the 5 s tip setInterval exists
  currentTip         \* useState(0)

vars ==
  <<state, loading, qrImageUrl, sseRef, reconnectTimeoutRef, mounted,
    openConns, nextConn, timers, pollInterval, fetchLoud, fetchQuiet,
    qrInterval, qrFetch, liveBlobs, nextBlob, revokeCalls, qrEntries,
    epoch, lastSource, lastCount, srv, captured, arrivals, pollFailedAt, cleanupOrder,
    actionLoading, cmdPost, cmdFetch, reconnectDelay,
    droppedAt, pollElapsed, clearedAfter, elapsedTimer, elapsedTime,
    tipTimer, currentTip>>

sseVars == <<sseRef, reconnectTimeoutRef, openConns, nextConn, timers, reconnectDelay, droppedAt>>
cmdVars == <<actionLoading, cmdPost, cmdFetch>>
srvVars == <<srv, captured, arrivals, pollFailedAt, cleanupOrder, cmdVars>>
pollVars == <<pollInterval, pollElapsed, clearedAfter>>
uiVars == <<elapsedTimer, elapsedTime, tipTimer, currentTip>>
lastVars == <<epoch, lastSource, lastCount>>
qrVars == <<qrImageUrl, qrInterval, qrFetch, liveBlobs, nextBlob, revokeCalls, qrEntries>>

\* ------------------------------------------------------------ the merge
\* data.messagesProcessed || prev.messagesProcessed
MergeCountLastWriteWins(data, prev) ==
  IF data.messagesProcessed = Undefined THEN 0 ELSE data.messagesProcessed

MergeCountResetsOnDisconnect(data, prev) ==
  IF data.status = "disconnected"
  THEN 0
  ELSE IF data.messagesProcessed = Undefined \/ data.messagesProcessed = 0
  THEN prev.messagesProcessed
  ELSE data.messagesProcessed

MergeCount(data, prev) ==
  IF data.messagesProcessed = Undefined \/ data.messagesProcessed = 0
  THEN prev.messagesProcessed
  ELSE data.messagesProcessed

MergeAgainstInitial(data, prev) ==
  [data EXCEPT !.messagesProcessed = MergeCount(data, InitialState)]

MergeKeepsError(data, prev) ==
  [data EXCEPT !.messagesProcessed = MergeCount(data, prev),
               !.error = IF data.error = Null THEN prev.error ELSE data.error]

\* prev => ({ ...data, messagesProcessed: data.messagesProcessed || prev.messagesProcessed })
Merge(data, prev) ==
  [data EXCEPT !.messagesProcessed = MergeCount(data, prev)]

\* ------------------------------------------------------------- effects
\* setQrImageUrl(prev => { if (prev && prev.startsWith('blob:'))
\*   URL.revokeObjectURL(prev); return null })
ClearQrImageNoRevoke ==
  /\ qrImageUrl' = Null
  /\ UNCHANGED <<liveBlobs, revokeCalls>>

ClearQrImage ==
  /\ qrImageUrl' = Null
  /\ IF Truthy(qrImageUrl) /\ StartsWith(qrImageUrl, "blob:")
     THEN /\ liveBlobs' = liveBlobs \ {qrImageUrl}
          /\ revokeCalls' = revokeCalls + 1
     ELSE UNCHANGED <<liveBlobs, revokeCalls>>

\* QR image effect, deps [state.status, state.qrCode]: the previous run's
\* cleanup (clearInterval) and then the body, for the render that publishes s.
QrEffectKeepsInterval(s) ==
  IF s.status = state.status /\ s.qrCode = state.qrCode
  THEN UNCHANGED <<qrImageUrl, qrInterval, qrFetch, liveBlobs, revokeCalls>>
  ELSE IF s.status = "qr_ready"
  THEN IF Truthy(s.qrCode) /\ (StartsWith(s.qrCode, "data:") \/ StartsWith(s.qrCode, "http"))
       THEN /\ qrImageUrl' = s.qrCode
            /\ UNCHANGED <<qrInterval, qrFetch, liveBlobs, revokeCalls>>
       ELSE /\ qrFetch < MaxQrFetch
            /\ qrFetch' = qrFetch + 1
            /\ qrInterval' = TRUE
            /\ UNCHANGED <<qrImageUrl, liveBlobs, revokeCalls>>
  ELSE /\ ClearQrImage
       /\ qrInterval' = FALSE
       /\ UNCHANGED qrFetch

QrEffect(s) ==
  IF s.status = state.status /\ s.qrCode = state.qrCode
  THEN UNCHANGED <<qrImageUrl, qrInterval, qrFetch, liveBlobs, revokeCalls>>
  ELSE IF s.status = "qr_ready"
  THEN IF Truthy(s.qrCode) /\ StartsWith(s.qrCode, "data:")
       THEN /\ qrImageUrl' = s.qrCode
            /\ qrInterval' = FALSE
            /\ UNCHANGED <<qrFetch, liveBlobs, revokeCalls>>
       ELSE IF Truthy(s.qrCode) /\ StartsWith(s.qrCode, "http")
       THEN /\ qrImageUrl' = s.qrCode
            /\ qrInterval' = FALSE
            /\ UNCHANGED <<qrFetch, liveBlobs, revokeCalls>>
       ELSE /\ qrFetch < MaxQrFetch
            /\ qrFetch' = qrFetch + 1
            /\ qrInterval' = TRUE
            /\ UNCHANGED <<qrImageUrl, liveBlobs, revokeCalls>>
  ELSE /\ ClearQrImage
       /\ qrInterval' = FALSE
       /\ UNCHANGED qrFetch

\* activeStates.includes(state.status) ? 2000 : 30000
PollIntervalForNoConnecting(status) ==
  IF status \in {"initializing", "qr_ready", "authenticating", "loading_chats"}
  THEN ShortPoll
  ELSE LongPoll

PollIntervalFor(status) ==
  IF status \in {"initializing", "qr_ready", "connecting", "authenticating", "loading_chats"}
  THEN ShortPoll
  ELSE LongPoll

\* Polling effect, deps [fetchStatus, fetchLogs, state.status]: when the
\* status changed, clearInterval of the running interval, then setInterval.
PollingEffectKeepsTimer(s) ==
  /\ pollInterval' = PollIntervalFor(s.status)
  /\ UNCHANGED <<pollElapsed, clearedAfter>>

PollingEffect(s) ==
  IF s.status = state.status
  THEN UNCHANGED pollVars
  ELSE /\ pollInterval' = PollIntervalFor(s.status)
       /\ pollElapsed' = 0
       /\ clearedAfter' = pollElapsed

\* Elapsed time effect, deps [state.connectionStartTime, state.status]: the
\* previous run's clearInterval, then setInterval or setElapsedTime(0).
ElapsedRuns(s) ==
  /\ s.connectionStartTime # 0
  /\ s.status # "connected"
  /\ s.status # "disconnected"
  /\ s.status # "error"

ElapsedEffectNoReset(s) ==
  /\ elapsedTimer' = ElapsedRuns(s)
  /\ UNCHANGED elapsedTime

ElapsedEffect(s) ==
  IF s.connectionStartTime = state.connectionStartTime /\ s.status = state.status
  THEN UNCHANGED <<elapsedTimer, elapsedTime>>
  ELSE IF ElapsedRuns(s)
  THEN /\ elapsedTimer' = TRUE
       /\ UNCHANGED elapsedTime
  ELSE /\ elapsedTimer' = FALSE
       /\ elapsedTime' = 0

\* Rotate tips effect, deps [state.status]: the previous run's clearInterval,
\* then setInterval in the three waiting statuses.
TipsEffectNoLoadingChats(s) ==
  /\ tipTimer' = (s.status = "initializing" \/ s.status = "qr_ready")
  /\ UNCHANGED currentTip

TipsEffect(s) ==
  /\ tipTimer' = (s.status = "initializing" \/ s.status = "qr_ready" \/ s.status = "loading_chats")
  /\ UNCHANGED currentTip

\* setState(prev => Merge(data, prev)) and the render it causes; React drops
\* a state update of an unmounted component.
Publish(data, source) ==
  IF mounted
  THEN LET s == Merge(data, state) IN
       /\ state' = s
       /\ QrEffect(s)
       /\ PollingEffect(s)
       /\ ElapsedEffect(s)
       /\ TipsEffect(s)
       /\ qrEntries' = IF s.status = "qr_ready" /\ state.status # "qr_ready"
                       THEN qrEntries + 1 ELSE qrEntries
       /\ qrEntries' <= MaxEntries
       /\ epoch' = 1 - epoch
       /\ lastSource' = source
       /\ lastCount' = data.messagesProcessed
       /\ UNCHANGED nextBlob
  ELSE UNCHANGED <<state, qrVars, pollVars, lastVars, uiVars>>

\* ------------------------------------------------------------------ Init
\* The state after the first render and its effects: the initial
\* fetchStatus() is in flight, connectSSE() has opened connection 1, the
\* polling interval runs at the long period, the QR effect took its else
\* branch.
Init ==
  /\ state = InitialState
  /\ loading = TRUE
  /\ qrImageUrl = Null
  /\ sseRef = 1
  /\ reconnectTimeoutRef = 0
  /\ mounted = TRUE
  /\ openConns = {1}
  /\ nextConn = 2
  /\ timers = {}
  /\ pollInterval = PollIntervalFor(InitialState.status)
  /\ fetchLoud = 1
  /\ fetchQuiet = 0
  /\ qrInterval = FALSE
  /\ qrFetch = 0
  /\ liveBlobs = {}
  /\ nextBlob = 1
  /\ revokeCalls = 0
  /\ qrEntries = 0
  /\ epoch = 0
  /\ lastSource = "none"
  /\ lastCount = NoCount
  /\ srv = InitialState.status
  /\ captured = [loud |-> InitialState.status, quiet |-> Null]
  /\ arrivals = <<>>
  /\ pollFailedAt = Undefined
  /\ cleanupOrder = <<>>
  /\ actionLoading = FALSE
  /\ cmdPost = 0
  /\ cmdFetch = 0
  /\ reconnectDelay = 0
  /\ droppedAt = Undefined
  /\ pollElapsed = 0
  /\ clearedAfter = 0
  /\ elapsedTimer = FALSE
  /\ elapsedTime = 0
  /\ tipTimer = FALSE
  /\ currentTip = 0

\* ----------------------------------------------------------- push stream
\* eventSource.onmessage with a payload JSON.parse accepts.  A closed
\* EventSource dispatches no events.
OnMessage(c, data) ==
  /\ c \in openConns
  /\ Publish(data, "push")
  /\ UNCHANGED <<loading, mounted, sseVars, fetchLoud, fetchQuiet>>

\* eventSource.onmessage with a payload JSON.parse rejects: the catch block.
OnMessageMalformedReconnects(c) ==
  /\ c \in openConns
  /\ droppedAt' = epoch
  /\ openConns' = openConns \ {c}
  /\ sseRef' = 0
  /\ timers' = (timers \ {reconnectTimeoutRef}) \cup {c}
  /\ reconnectTimeoutRef' = c
  /\ reconnectDelay' = ReconnectDelay
  /\ UNCHANGED <<state, loading, mounted, nextConn, pollVars, fetchLoud,
                 fetchQuiet, qrVars, lastVars, uiVars>>

OnMessageMalformed(c) ==
  /\ c \in openConns
  /\ droppedAt' = epoch
  /\ UNCHANGED <<state, loading, mounted, sseRef, reconnectTimeoutRef, openConns,
                 nextConn, timers, reconnectDelay, pollVars, fetchLoud,
                 fetchQuiet, qrVars, lastVars, uiVars>>

\* eventSource.onerror
OnErrorNoRetry(c) ==
  /\ c \in openConns
  /\ openConns' = openConns \ {c}
  /\ sseRef' = 0
  /\ UNCHANGED <<state, loading, mounted, nextConn, reconnectTimeoutRef, timers,
                 reconnectDelay, droppedAt, pollVars, fetchLoud,
                 fetchQuiet, qrVars, lastVars, uiVars>>

OnErrorKeepsOpen(c) ==
  /\ c \in openConns
  /\ openConns' = openConns
  /\ sseRef' = 0
  /\ timers' = (timers \ {reconnectTimeoutRef}) \cup {c}
  /\ reconnectTimeoutRef' = c
  /\ reconnectDelay' = ReconnectDelay
  /\ UNCHANGED <<state, loading, mounted, nextConn, droppedAt, pollVars, fetchLoud,
                 fetchQuiet, qrVars, lastVars, uiVars>>

OnError(c) ==
  /\ c \in openConns
  /\ openConns' = openConns \ {c}
  /\ sseRef' = 0
  /\ timers' = (timers \ {reconnectTimeoutRef}) \cup {c}
  /\ reconnectTimeoutRef' = c
  /\ reconnectDelay' = ReconnectDelay
  /\ UNCHANGED <<state, loading, mounted, nextConn, droppedAt, pollVars, fetchLoud,
                 fetchQuiet, qrVars, lastVars, uiVars>>

\* connectSSE: close sseRef.current, construct the EventSource, store it.
ConnectSSEForgetsRef ==
  /\ nextConn <= MaxConns
  /\ openConns' = (openConns \ {sseRef}) \cup {nextConn}
  /\ sseRef' = sseRef
  /\ nextConn' = nextConn + 1

ConnectSSE ==
  /\ nextConn <= MaxConns
  /\ openConns' = (openConns \ {sseRef}) \cup {nextConn}
  /\ sseRef' = nextConn
  /\ nextConn' = nextConn + 1

\* The reconnect timeout t fires: () => connectSSE()
ReconnectFireKeepsTimer(t) ==
  /\ t \in timers
  /\ timers' = timers
  /\ ConnectSSE
  /\ UNCHANGED <<state, loading, mounted, reconnectTimeoutRef, reconnectDelay,
                 droppedAt, pollVars,
                 fetchLoud, fetchQuiet, qrVars, lastVars, uiVars>>

ReconnectFire(t) ==
  /\ t \in timers
  /\ timers' = timers \ {t}
  /\ ConnectSSE
  /\ UNCHANGED <<state, loading, mounted, reconnectTimeoutRef, reconnectDelay,
                 droppedAt, pollVars,
                 fetchLoud, fetchQuiet, qrVars, lastVars, uiVars>>

\* ------------------------------------------------------------ status poll
\* The polling interval ticks: fetchStatus(false) sends its request.
PollTick ==
  /\ pollInterval # 0
  /\ fetchQuiet < MaxPolls
  /\ fetchQuiet' = fetchQuiet + 1
  /\ pollElapsed' = 0
  /\ UNCHANGED <<state, loading, mounted, sseVars, pollInterval, clearedAfter,
                 fetchLoud, qrVars, lastVars, uiVars>>

\* A fetchStatus(showLoading) call in flight, as its counter.
FetchDone(showLoading) ==
  IF showLoading
  THEN /\ fetchLoud > 0
       /\ fetchLoud' = fetchLoud - 1
       /\ loading' = IF mounted THEN FALSE ELSE loading
       /\ UNCHANGED fetchQuiet
  ELSE /\ fetchQuiet > 0
       /\ fetchQuiet' = fetchQuiet - 1
       /\ UNCHANGED <<loading, fetchLoud>>

\* fetchStatus resumes with a response whose json.success is true.
StatusResponse(showLoading, data) ==
  /\ FetchDone(showLoading)
  /\ Publish(data, "poll")
  /\ UNCHANGED <<mounted, sseVars>>

\* fetchStatus resumes with success false, or fetch / res.json() threw.
StatusFailureSetsError(showLoading) ==
  /\ FetchDone(showLoading)
  /\ state' = [state EXCEPT !.status = "error"]
  /\ UNCHANGED <<mounted, sseVars, pollVars, qrVars, lastVars, uiVars>>

StatusFailure(showLoading) ==
  /\ FetchDone(showLoading)
  /\ UNCHANGED <<state, mounted, sseVars, pollVars, qrVars, lastVars, uiVars>>

\* Time advances by one short period; a due interval fires before more
\* time passes.
TimePasses ==
  /\ pollInterval # 0
  /\ pollElapsed + ShortPoll <= pollInterval
  /\ pollElapsed' = pollElapsed + ShortPoll
  /\ UNCHANGED <<state, loading, mounted, sseVars, pollInterval, clearedAfter,
                 fetchLoud, fetchQuiet, qrVars, lastVars, uiVars>>

\* The polling interval fires when its period has run.
PollTickDue ==
  /\ pollElapsed = pollInterval
  /\ PollTick

\* ------------------------------------------------------- presentation
\* The elapsed-time interval ticks; e is
\* Math.floor((Date.now() - state.connectionStartTime) / 1000).
ElapsedTickWritesSnapshot(e) ==
  /\ elapsedTimer
  /\ elapsedTime' = e
  /\ state' = [state EXCEPT !.connectionStartTime = 0]
  /\ UNCHANGED <<loading, mounted, sseVars, pollVars, fetchLoud,
                 fetchQuiet, qrVars, lastVars, elapsedTimer, tipTimer, currentTip>>

ElapsedTick(e) ==
  /\ elapsedTimer
  /\ elapsedTime' = e
  /\ UNCHANGED <<state, loading, mounted, sseVars, pollVars, fetchLoud,
                 fetchQuiet, qrVars, lastVars, elapsedTimer, tipTimer, currentTip>>

\* The tip interval ticks: setCurrentTip(prev => (prev + 1) % WAITING_TIPS.length)
TipTick ==
  /\ tipTimer
  /\ currentTip' = (currentTip + 1) % NumTips
  /\ UNCHANGED <<state, loading, mounted, sseVars, pollVars, fetchLoud,
                 fetchQuiet, qrVars, lastVars, elapsedTimer, elapsedTime, tipTimer>>

\* -------------------------------------------------------------- QR image
\* The 55 s interval ticks: loadQr() sends its request.
QrRefreshTick ==
  /\ qrInterval
  /\ qrFetch < MaxQrFetch
  /\ qrFetch' = qrFetch + 1
  /\ UNCHANGED <<state, loading, mounted, sseVars, pollVars, fetchLoud,
                 fetchQuiet, qrImageUrl, qrInterval, liveBlobs, nextBlob,
                 revokeCalls, qrEntries, lastVars, uiVars>>

\* loadQr resumes with res.ok: createObjectURL, then the setQrImageUrl
\* updater revokes a previous blob: URL and stores the new one.
LoadQrOkNoRevoke ==
  /\ qrFetch > 0
  /\ nextBlob <= MaxBlobs
  /\ qrFetch' = qrFetch - 1
  /\ nextBlob' = nextBlob + 1
  /\ liveBlobs' = liveBlobs \cup {BlobUrls[nextBlob]}
  /\ qrImageUrl' = IF mounted THEN BlobUrls[nextBlob] ELSE qrImageUrl
  /\ UNCHANGED <<state, loading, mounted, sseVars, pollVars, fetchLoud,
                 fetchQuiet, qrInterval, revokeCalls, qrEntries, lastVars, uiVars>>

LoadQrOk ==
  /\ qrFetch > 0
  /\ nextBlob <= MaxBlobs
  /\ qrFetch' = qrFetch - 1
  /\ nextBlob' = nextBlob + 1
  /\ IF mounted
     THEN /\ qrImageUrl' = BlobUrls[nextBlob]
          /\ IF Truthy(qrImageUrl) /\ StartsWith(qrImageUrl, "blob:")
             THEN /\ liveBlobs' = (liveBlobs \ {qrImageUrl}) \cup {BlobUrls[nextBlob]}
                  /\ revokeCalls' = revokeCalls + 1
             ELSE /\ liveBlobs' = liveBlobs \cup {BlobUrls[nextBlob]}
                  /\ UNCHANGED revokeCalls
     ELSE /\ liveBlobs' = liveBlobs \cup {BlobUrls[nextBlob]}
          /\ UNCHANGED <<qrImageUrl, revokeCalls>>
  /\ UNCHANGED <<state, loading, mounted, sseVars, pollVars, fetchLoud,
                 fetchQuiet, qrInterval, qrEntries, lastVars, uiVars>>

\* loadQr resumes with !res.ok, or fetch / res.blob() threw.
LoadQrFailClears ==
  /\ qrFetch > 0
  /\ qrFetch' = qrFetch - 1
  /\ ClearQrImage
  /\ UNCHANGED <<state, loading, mounted, sseVars, pollVars, fetchLoud,
                 fetchQuiet, qrInterval, nextBlob, qrEntries, lastVars, uiVars>>

LoadQrFail ==
  /\ qrFetch > 0
  /\ qrFetch' = qrFetch - 1
  /\ UNCHANGED <<state, loading, mounted, sseVars, pollVars, fetchLoud,
                 fetchQuiet, qrImageUrl, qrInterval, liveBlobs, nextBlob,
                 revokeCalls, qrEntries, lastVars, uiVars>>

\* ---------------------------------------------------------------- unmount
\* The effect cleanups: clearInterval of the QR refresh, of the elapsed-time
\* timer, of the tip timer and of the poll, close of sseRef.current,
\* clearTimeout of reconnectTimeoutRef.current.
UnmountKeepsTimer ==
  /\ mounted
  /\ mounted' = FALSE
  /\ qrInterval' = FALSE
  /\ elapsedTimer' = FALSE
  /\ tipTimer' = FALSE
  /\ pollInterval' = 0
  /\ openConns' = openConns \ {sseRef}
  /\ UNCHANGED <<state, loading, qrImageUrl, sseRef, reconnectTimeoutRef, timers,
                 nextConn, reconnectDelay, droppedAt, pollElapsed,
                 clearedAfter, elapsedTime, currentTip, fetchLoud,
                 fetchQuiet, qrFetch, liveBlobs, nextBlob, revokeCalls,
                 qrEntries, lastVars>>

Unmount ==
  /\ mounted
  /\ mounted' = FALSE
  /\ qrInterval' = FALSE
  /\ elapsedTimer' = FALSE
  /\ tipTimer' = FALSE
  /\ pollInterval' = 0
  /\ openConns' = openConns \ {sseRef}
  /\ timers' = timers \ {reconnectTimeoutRef}
  /\ UNCHANGED <<state, loading, qrImageUrl, sseRef, reconnectTimeoutRef,
                 nextConn, reconnectDelay, droppedAt, pollElapsed,
                 clearedAfter, elapsedTime, currentTip, fetchLoud,
                 fetchQuiet, qrFetch, liveBlobs, nextBlob, revokeCalls,
                 qrEntries, lastVars>>

\* --------------------------------------------------------------- backend
\* The status sequence of the backend: disconnected, initializing, qr_ready,
\* authenticating, loading_chats, connected, disconnected; connecting from
\* disconnected or initializing toward connected; error from any other
\* state; error back to disconnected or initializing.
Permitted(from, to) ==
  \/ <<from, to>> \in
       { <<"disconnected", "initializing">>, <<"initializing", "qr_ready">>,
         <<"qr_ready", "authenticating">>, <<"authenticating", "loading_chats">>,
         <<"loading_chats", "connected">>, <<"connected", "disconnected">>,
         <<"disconnected", "connecting">>, <<"initializing", "connecting">>,
         <<"connecting", "connected">>,
         <<"error", "disconnected">>, <<"error", "initializing">> }
  \/ (to = "error" /\ from \in Statuses \ {"error"})

\* The payload the backend sends while in status st.
ProtoSnapshot(st) ==
  Snapshot(st, IF st = "qr_ready" THEN <<"data:A", Null, Null, 1>> ELSE Bare, 0)

\* Payloads for the push stream's own behaviour: one per status.
StatusCandidates ==
  { ProtoSnapshot(st) : st \in Statuses }

\* The backend moves to status st and emits the event on the open stream.
ServerStep(st) ==
  /\ Permitted(srv, st)
  /\ srv' = st
  /\ UNCHANGED <<captured, arrivals, pollFailedAt, cleanupOrder, cmdVars>>
  /\ IF sseRef \in openConns
     THEN OnMessage(sseRef, ProtoSnapshot(st))
     ELSE UNCHANGED <<state, loading, mounted, sseVars, pollVars, fetchLoud,
                      fetchQuiet, qrVars, lastVars, uiVars>>

\* A poll tick whose request the backend answers at once; the response is
\* delivered later.
PollTickProto ==
  /\ PollTick
  /\ captured' = [captured EXCEPT !.quiet = srv]
  /\ UNCHANGED <<srv, arrivals, pollFailedAt, cleanupOrder, cmdVars>>

\* The response of a fetch in flight arrives.
StatusResponseProto(showLoading) ==
  /\ StatusResponse(showLoading,
       ProtoSnapshot(IF showLoading THEN captured.loud ELSE captured.quiet))
  /\ UNCHANGED srvVars

\* -------------------------------------------------------- specifications
\* The merge of push and poll payloads.
NextMerge ==
  \/ \E c \in 1..MaxConns, data \in MergeCandidates : OnMessage(c, data) /\ UNCHANGED srvVars
  \/ PollTick /\ UNCHANGED srvVars
  \/ \E showLoading \in BOOLEAN, data \in MergeCandidates :
       StatusResponse(showLoading, data) /\ UNCHANGED srvVars
  \/ \E showLoading \in BOOLEAN : StatusFailure(showLoading) /\ UNCHANGED srvVars
  \/ Unmount /\ UNCHANGED srvVars

SpecMerge == Init /\ [][NextMerge]_vars

\* The merge when the payloads come from a backend that follows its status
\* sequence.
NextProto ==
  \/ \E st \in Statuses : ServerStep(st)
  \/ PollTickProto
  \/ \E showLoading \in BOOLEAN : StatusResponseProto(showLoading)
  \/ Unmount /\ UNCHANGED srvVars

SpecProto == Init /\ [][NextProto]_vars

\* The QR image effect and its fetches.
NextQr ==
  \/ \E c \in 1..MaxConns, data \in QrCandidates : OnMessage(c, data) /\ UNCHANGED srvVars
  \/ PollTick /\ UNCHANGED srvVars
  \/ \E showLoading \in BOOLEAN, data \in QrCandidates :
       StatusResponse(showLoading, data) /\ UNCHANGED srvVars
  \/ QrRefreshTick /\ UNCHANGED srvVars
  \/ LoadQrOk /\ UNCHANGED srvVars
  \/ LoadQrFail /\ UNCHANGED srvVars
  \/ Unmount /\ UNCHANGED srvVars

SpecQr == Init /\ [][NextQr]_vars

\* The push connection and its reconnect timer.
NextSse ==
  \/ \E c \in 1..MaxConns, data \in StatusCandidates : OnMessage(c, data) /\ UNCHANGED srvVars
  \/ \E c \in 1..MaxConns : OnError(c) /\ UNCHANGED srvVars
  \/ \E t \in 1..MaxConns : ReconnectFire(t) /\ UNCHANGED srvVars
  \/ Unmount /\ UNCHANGED srvVars

SpecSse == Init /\ [][NextSse]_vars

\* A failed poll recorded.
FailureRecorded(showLoading) ==
  /\ pollFailedAt' = IF showLoading THEN pollFailedAt ELSE epoch
  /\ UNCHANGED <<srv, captured, arrivals, cleanupOrder, cmdVars>>

\* The polling interval in time.
NextPoll ==
  \/ \E c \in 1..MaxConns, data \in StatusCandidates : OnMessage(c, data) /\ UNCHANGED srvVars
  \/ TimePasses /\ UNCHANGED srvVars
  \/ PollTickDue /\ UNCHANGED srvVars
  \/ \E showLoading \in BOOLEAN, data \in StatusCandidates :
       StatusResponse(showLoading, data) /\ UNCHANGED srvVars
  \/ \E showLoading \in BOOLEAN : StatusFailure(showLoading) /\ FailureRecorded(showLoading)
  \/ Unmount /\ UNCHANGED srvVars

SpecPoll == Init /\ [][NextPoll]_vars

\* The push connection with events JSON.parse rejects.
NextPush ==
  \/ \E c \in 1..MaxConns, data \in StatusCandidates : OnMessage(c, data) /\ UNCHANGED srvVars
  \/ \E c \in 1..MaxConns : OnMessageMalformed(c) /\ UNCHANGED srvVars
  \/ \E c \in 1..MaxConns : OnError(c) /\ UNCHANGED srvVars
  \/ \E t \in 1..MaxConns : ReconnectFire(t) /\ UNCHANGED srvVars
  \/ Unmount /\ UNCHANGED srvVars

SpecPush == Init /\ [][NextPush]_vars

\* The elapsed-time and tip timers.
UiCandidates ==
  { Snapshot(st, <<IF st = "qr_ready" THEN "data:A" ELSE Null, Null, Null, t>>, 0) :
      st \in Statuses, t \in {0, 1} }

NextUi ==
  \/ \E c \in 1..MaxConns, data \in UiCandidates : OnMessage(c, data) /\ UNCHANGED srvVars
  \/ \E e \in 0..MaxElapsed : ElapsedTick(e) /\ UNCHANGED srvVars
  \/ TipTick /\ UNCHANGED srvVars
  \/ Unmount /\ UNCHANGED srvVars

SpecUi == Init /\ [][NextUi]_vars

\* Payloads applied with their arrival order recorded.
Recorded(data) ==
  /\ Len(arrivals) < MaxLog
  /\ arrivals' = IF mounted THEN Append(arrivals, data) ELSE arrivals
  /\ UNCHANGED <<srv, captured, pollFailedAt, cleanupOrder, cmdVars>>

FoldCandidates ==
  { Snapshot(st, Bare, n) : st \in {"connected", "disconnected"}, n \in CandCounts }

NextFold ==
  \/ \E c \in 1..MaxConns, data \in FoldCandidates : OnMessage(c, data) /\ Recorded(data)
  \/ PollTick /\ UNCHANGED srvVars
  \/ \E showLoading \in BOOLEAN, data \in FoldCandidates :
       StatusResponse(showLoading, data) /\ Recorded(data)
  \/ \E showLoading \in BOOLEAN : StatusFailure(showLoading) /\ UNCHANGED srvVars
  \/ Unmount /\ UNCHANGED srvVars

SpecFold == Init /\ [][NextFold]_vars

\* The payloads {initializing, 0}, {qr_ready, 0, "A"}, {qr_ready, 0, "B"}
\* arriving in this order, by push or by poll.
Scenario ==
  << Snapshot("initializing", Bare, 0),
     Snapshot("qr_ready", <<"A", Null, Null, 0>>, 0),
     Snapshot("qr_ready", <<"B", Null, Null, 0>>, 0) >>

ScenarioNext == Scenario[Len(arrivals) + 1]

NextScenario ==
  \/ \E c \in 1..MaxConns :
       /\ Len(arrivals) < Len(Scenario)
       /\ OnMessage(c, ScenarioNext)
       /\ Recorded(ScenarioNext)
  \/ PollTick /\ UNCHANGED srvVars
  \/ \E showLoading \in BOOLEAN :
       /\ Len(arrivals) < Len(Scenario)
       /\ StatusResponse(showLoading, ScenarioNext)
       /\ Recorded(ScenarioNext)
  \/ \E showLoading \in BOOLEAN : StatusFailure(showLoading) /\ UNCHANGED srvVars
  \/ QrRefreshTick /\ UNCHANGED srvVars
  \/ LoadQrOk /\ UNCHANGED srvVars
  \/ LoadQrFail /\ UNCHANGED srvVars

SpecScenario == Init /\ [][NextScenario]_vars

\* The payload applied last, recorded.
RecordedLast(data) ==
  /\ arrivals' = IF mounted THEN <<data>> ELSE arrivals
  /\ UNCHANGED <<srv, captured, pollFailedAt, cleanupOrder, cmdVars>>

RuleCandidates ==
  { c \in MergeCandidates : c.status \in {"connected", "disconnected", "qr_ready"} }

NextRule ==
  \/ \E c \in 1..MaxConns, data \in RuleCandidates : OnMessage(c, data) /\ RecordedLast(data)
  \/ PollTick /\ UNCHANGED srvVars
  \/ \E showLoading \in BOOLEAN, data \in RuleCandidates :
       StatusResponse(showLoading, data) /\ RecordedLast(data)
  \/ \E showLoading \in BOOLEAN : StatusFailure(showLoading) /\ UNCHANGED srvVars
  \/ Unmount /\ UNCHANGED srvVars

SpecRule == Init /\ [][NextRule]_vars

\* ------------------------------------------------------------ commands
\* handleConnect, handleDisconnect, handleLogout (confirmed) or handleCancel
\* starts: setActionLoading(true), then the POST.
HandleCommand ==
  /\ mounted
  /\ cmdPost + cmdFetch < MaxCmds
  /\ actionLoading' = TRUE
  /\ cmdPost' = cmdPost + 1
  /\ UNCHANGED <<state, loading, mounted, sseVars, pollVars, fetchLoud, fetchQuiet,
                 qrVars, lastVars, uiVars, srv, captured, arrivals, pollFailedAt,
                 cleanupOrder, cmdFetch>>

\* The POST resolved: await fetchStatus(), which sets loading and fetches.
CommandPosted ==
  /\ cmdPost > 0
  /\ cmdPost' = cmdPost - 1
  /\ cmdFetch' = cmdFetch + 1
  /\ fetchLoud' = fetchLoud + 1
  /\ loading' = IF mounted THEN TRUE ELSE loading
  /\ UNCHANGED <<state, mounted, sseVars, pollVars, fetchQuiet,
                 qrVars, lastVars, uiVars, srv, captured, arrivals, pollFailedAt,
                 cleanupOrder, actionLoading>>

\* The POST rejected: catch, then finally setActionLoading(false).
CommandFailedKeepsFlag ==
  /\ cmdPost > 0
  /\ cmdPost' = cmdPost - 1
  /\ UNCHANGED <<state, loading, mounted, sseVars, pollVars, fetchLoud, fetchQuiet,
                 qrVars, lastVars, uiVars, srv, captured, arrivals, pollFailedAt,
                 cleanupOrder, cmdFetch, actionLoading>>

CommandFailed ==
  /\ cmdPost > 0
  /\ cmdPost' = cmdPost - 1
  /\ actionLoading' = IF mounted THEN FALSE ELSE actionLoading
  /\ UNCHANGED <<state, loading, mounted, sseVars, pollVars, fetchLoud, fetchQuiet,
                 qrVars, lastVars, uiVars, srv, captured, arrivals, pollFailedAt,
                 cleanupOrder, cmdFetch>>

\* The fetchStatus() a handler awaits has settled: finally setActionLoading(false).
CommandFetchSettled ==
  /\ cmdFetch > 0
  /\ cmdFetch' = cmdFetch - 1
  /\ actionLoading' = IF mounted THEN FALSE ELSE actionLoading
  /\ UNCHANGED <<srv, captured, arrivals, pollFailedAt, cleanupOrder, cmdPost>>

\* The fetchStatus() of the initial load is the one that settles.
InitialLoadSettled ==
  /\ fetchLoud > cmdFetch
  /\ UNCHANGED srvVars

PostSettles == CommandPosted \/ CommandFailed

CommandFetchSettles ==
  \/ \E data \in StatusCandidates : StatusResponse(TRUE, data) /\ CommandFetchSettled
  \/ StatusFailure(TRUE) /\ CommandFetchSettled

NextCmd ==
  \/ HandleCommand
  \/ PostSettles
  \/ CommandFetchSettles
  \/ \E data \in StatusCandidates : StatusResponse(TRUE, data) /\ InitialLoadSettled
  \/ StatusFailure(TRUE) /\ InitialLoadSettled
  \/ \E c \in 1..MaxConns, data \in StatusCandidates : OnMessage(c, data) /\ UNCHANGED srvVars
  \/ Unmount /\ UNCHANGED srvVars

\* Every request the browser sends settles: it resolves or it rejects.
SpecCmd ==
  /\ Init
  /\ [][NextCmd]_vars
  /\ WF_vars(PostSettles)
  /\ WF_vars(CommandFetchSettles)

\* The cleanups of an unmount, recorded in the order React runs them: the
\* order in which the effects that returned one are declared.
CleanupsRecorded ==
  /\ cleanupOrder' =
       (IF qrInterval THEN <<"qrInterval">> ELSE <<>>)
       \o (IF elapsedTimer THEN <<"elapsedTimer">> ELSE <<>>)
       \o (IF tipTimer THEN <<"tipTimer">> ELSE <<>>)
       \o <<"push", "pollInterval">>
  /\ UNCHANGED <<srv, captured, arrivals, pollFailedAt, cmdVars>>

\* The whole component: both transports, the QR image and the presentation
\* timers.
EngineCandidates ==
  { Snapshot("disconnected", Bare, 0),
    Snapshot("initializing", <<Null, Null, Null, 1>>, 0),
    Snapshot("qr_ready", <<"A", Null, Null, 1>>, 0),
    Snapshot("connected", <<Null, Null, Null, 1>>, 1) }

NextEngine ==
  \/ \E c \in 1..MaxConns, data \in EngineCandidates : OnMessage(c, data) /\ UNCHANGED srvVars
  \/ \E c \in 1..MaxConns : OnError(c) /\ UNCHANGED srvVars
  \/ \E t \in 1..MaxConns : ReconnectFire(t) /\ UNCHANGED srvVars
  \/ PollTick /\ UNCHANGED srvVars
  \/ \E showLoading \in BOOLEAN, data \in EngineCandidates :
       StatusResponse(showLoading, data) /\ UNCHANGED srvVars
  \/ \E showLoading \in BOOLEAN : StatusFailure(showLoading) /\ UNCHANGED srvVars
  \/ QrRefreshTick /\ UNCHANGED srvVars
  \/ LoadQrOk /\ UNCHANGED srvVars
  \/ LoadQrFail /\ UNCHANGED srvVars
  \/ \E e \in 0..MaxElapsed : ElapsedTick(e) /\ UNCHANGED srvVars
  \/ TipTick /\ UNCHANGED srvVars
  \/ Unmount /\ CleanupsRecorded

SpecEngine == Init /\ [][NextEngine]_vars

\* ------------------------------------------------------------ properties
TypeOK ==
  /\ state.messagesProcessed \in 0..MaxCount
  /\ lastCount \in CandCounts \cup {NoCount}
  /\ pollInterval \in {0, ShortPoll, LongPoll}
  /\ liveBlobs \subseteq {BlobUrls[i] : i \in 1..(nextBlob - 1)}

\* A payload was applied to state in this step.
Published == epoch' # epoch

\* C1: the published messagesProcessed never decreases from one published
\* snapshot to the next, except when the snapshot being published has status
\* disconnected.
CountNeverDecreases ==
  [][Published /\ state'.status # "disconnected"
       => state'.messagesProcessed >= state.messagesProcessed]_vars

\* C2: when an applied payload has messagesProcessed zero or absent, the held
\* count is greater than zero and the payload's status is not disconnected,
\* the published snapshot carries the held count.
AntiRegression ==
  [][Published /\ lastCount' \in {0, Undefined} /\ state.messagesProcessed > 0
       /\ state'.status # "disconnected"
       => state'.messagesProcessed = state.messagesProcessed]_vars

\* C2 witness: a poll response {connected, 0} was applied and the published
\* count is still the held, non-zero one.
AntiRegressionWitness ==
  /\ lastSource = "poll"
  /\ lastCount = 0
  /\ state.status = "connected"
  /\ state.messagesProcessed = MaxCount

\* C3: when a payload with status disconnected and count zero is applied while
\* the held count is greater than zero, the published count is zero.
ResetOnDisconnect ==
  [][Published /\ lastCount' = 0 /\ state'.status = "disconnected"
       /\ state.messagesProcessed > 0
       => state'.messagesProcessed = 0]_vars

\* C4: every two consecutive published statuses are a transition of the
\* backend's status sequence, for a backend that follows the sequence.
TransitionsFollowProtocol ==
  [][state'.status = state.status \/ Permitted(state.status, state'.status)]_vars

\* C5: the published status is always one of the eight declared statuses (a
\* payload with another status is not applied).
StatusValid == state.status \in Statuses

\* C6: the published snapshot carries qrCode only in qr_ready, user only in
\* connected and error only in error.
FieldsScoped ==
  /\ state.qrCode # Null => state.status = "qr_ready"
  /\ state.user # Null => state.status = "connected"
  /\ state.error # Null => state.status = "error"

\* C7: at most one object URL is created and not revoked at any time.
AtMostOneLiveBlob == Cardinality(liveBlobs) <= 1

\* C8: while mounted and outside qr_ready, no QR image is held and no object
\* URL is live.
NoArtifactOutsideQrReady ==
  mounted /\ state.status # "qr_ready" => qrImageUrl = Null /\ liveBlobs = {}

\* C9 as stated: outside qr_ready the number of revokeObjectURL calls equals
\* the number of times the status entered qr_ready.
ReleaseCountEqualsEntries ==
  state.status # "qr_ready" => revokeCalls = qrEntries

\* C9 amended: every step that takes the published status out of qr_ready
\* clears qrImageUrl and, exactly when qrImageUrl was an object URL, revokes
\* it in that step with one revokeObjectURL call.
ExitReleases ==
  [][state.status = "qr_ready" /\ state'.status # "qr_ready"
       => /\ qrImageUrl' = Null
          /\ IF IsBlobUrl(qrImageUrl)
             THEN qrImageUrl \notin liveBlobs' /\ revokeCalls' = revokeCalls + 1
             ELSE revokeCalls' = revokeCalls /\ liveBlobs' = liveBlobs]_vars

\* C9 witness: the status left qr_ready while a fetched image was held; the
\* only object URL created has been revoked.
ExitReleasesWitness ==
  /\ state.status # "qr_ready"
  /\ qrEntries = 1
  /\ nextBlob = 2
  /\ revokeCalls = 1
  /\ liveBlobs = {}
  /\ qrImageUrl = Null

\* C10: at most one EventSource opened by connectSSE is open at any time.
AtMostOneOpen == Cardinality(openConns) <= 1

\* C10 witness: connectSSE ran again after an error; the first connection is
\* closed and the second is the open one.
AtMostOneOpenWitness ==
  /\ nextConn = 3
  /\ openConns = {2}
  /\ sseRef = 2

\* C11: a push-connection error closes the connection and leaves exactly one
\* retry scheduled, ReconnectDelay ms ahead; when the retry fires no retry is
\* left and exactly one connection is open. This holds at every failure,
\* however many came before.
RetryAfterError ==
  [][ /\ (mounted' /\ openConns' # openConns /\ nextConn' = nextConn) =>
           /\ openConns' = {}
           /\ sseRef' = 0
           /\ Cardinality(timers') = 1
           /\ reconnectTimeoutRef' \in timers'
           /\ reconnectDelay' = ReconnectDelay
      /\ (nextConn' # nextConn) =>
           /\ timers' = {}
           /\ Cardinality(openConns') = 1
           /\ sseRef' \in openConns' ]_vars

\* C11 witness: two connections failed in a row and the retry of the second
\* has opened the third.
RetryAfterErrorWitness ==
  /\ mounted
  /\ nextConn = 4
  /\ openConns = {3}
  /\ timers = {}
  /\ reconnectDelay = ReconnectDelay

\* C12: from the unmount on, no push connection is open, no retry is pending
\* and no connection is opened again.
TeardownClosesPush ==
  [][ ~mounted' => /\ openConns' = {}
                   /\ timers' = {}
                   /\ nextConn' = nextConn ]_vars

\* C12 witness: the component was unmounted while a retry was pending.
TeardownClosesPushWitness ==
  /\ ~mounted
  /\ sseRef = 0
  /\ reconnectTimeoutRef # 0
  /\ timers = {}
  /\ openConns = {}

\* C13: while mounted there is one polling interval; its period is 2000 ms in
\* initializing, qr_ready, connecting, authenticating and loading_chats and
\* 30000 ms in connected, disconnected and error.
PollPeriodByStatus ==
  mounted =>
    /\ pollInterval \in {2000, 30000}
    /\ state.status \in {"initializing", "qr_ready", "connecting",
                         "authenticating", "loading_chats"} => pollInterval = 2000
    /\ state.status \in {"connected", "disconnected", "error"} => pollInterval = 30000

\* C13 witness: the status is connecting and the interval has the short period.
PollPeriodByStatusWitness ==
  /\ mounted
  /\ state.status = "connecting"
  /\ pollInterval = ShortPoll
  /\ lastSource = "push"

\* C14: a change of status replaces the polling interval at once, so the new
\* period counts from the change; after connected -> initializing the period
\* is 2000 ms; a poll is sent only when the period of the current interval
\* has run.
RescheduleOnChange ==
  [][ /\ (mounted' /\ state'.status # state.status) =>
           /\ pollElapsed' = 0
           /\ clearedAfter' = pollElapsed
           /\ (state.status = "connected" /\ state'.status = "initializing")
                => pollInterval' = 2000
      /\ (fetchQuiet' > fetchQuiet) => pollElapsed = pollInterval ]_vars

\* C14 witness: an interval of the long period was cleared 4 s into its
\* period, the status is initializing, and 2 s after the change a poll is due.
RescheduleOnChangeWitness ==
  /\ mounted
  /\ state.status = "initializing"
  /\ clearedAfter = 2 * ShortPoll
  /\ pollInterval = ShortPoll
  /\ pollElapsed = pollInterval
  /\ fetchQuiet = 0

\* C15: a fetch of the status that fails changes neither the snapshot nor the
\* polling interval, which stays set.
PollFailureIsSilent ==
  [][ (mounted /\ epoch' = epoch /\ (fetchQuiet' < fetchQuiet \/ fetchLoud' < fetchLoud)) =>
        /\ state' = state
        /\ pollInterval' = pollInterval
        /\ pollInterval' # 0
        /\ pollElapsed' = pollElapsed ]_vars

\* C15 witness: after a push put the status at authenticating a poll failed;
\* the status is still authenticating and the interval is set.
PollFailureIsSilentWitness ==
  /\ mounted
  /\ pollFailedAt = 1
  /\ epoch = 1
  /\ state.status = "authenticating"
  /\ pollInterval = ShortPoll
  /\ fetchQuiet = 0

\* C16: a push event JSON.parse rejects is dropped: the snapshot, the
\* connection and the retry timer are as before.
MalformedDropped ==
  [][ droppedAt' # droppedAt =>
        /\ state' = state
        /\ epoch' = epoch
        /\ openConns' = openConns
        /\ sseRef' = sseRef
        /\ sseRef' \in openConns'
        /\ timers' = timers
        /\ reconnectTimeoutRef' = reconnectTimeoutRef ]_vars

\* C16 witness: the first connection dropped an event before any payload was
\* applied and then applied a well-formed one.
MalformedDroppedWitness ==
  /\ droppedAt = 0
  /\ epoch = 1
  /\ lastSource = "push"
  /\ openConns = {1}
  /\ sseRef = 1
  /\ nextConn = 2
  /\ timers = {}

\* C17: after the unmount nothing is left: no polling interval, no open
\* connection, no pending retry, no refresh interval, no elapsed-time or tip
\* interval, no object URL that was not revoked.
NothingSurvivesTeardown ==
  ~mounted =>
    /\ pollInterval = 0
    /\ openConns = {}
    /\ timers = {}
    /\ ~qrInterval
    /\ ~elapsedTimer
    /\ ~tipTimer
    /\ liveBlobs = {}

RECURSIVE FoldArrivals(_, _)
FoldArrivals(cs, prev) ==
  IF cs = <<>>
  THEN prev
  ELSE FoldArrivals(Tail(cs),
         [Head(cs) EXCEPT !.messagesProcessed =
            IF Head(cs).messagesProcessed \in 1..(MaxCount + 1)
            THEN Head(cs).messagesProcessed
            ELSE prev.messagesProcessed])

\* C19: the snapshot equals the merge rule folded over the payloads in their
\* order of arrival, starting from the initial snapshot.
MergedInArrivalOrder == state = FoldArrivals(arrivals, InitialState)

\* C19 witness: three payloads arrived, the last by poll right after a push;
\* the count the first brought survived two payloads without one.
MergedInArrivalOrderWitness ==
  /\ Len(arrivals) = 3
  /\ arrivals[1].messagesProcessed = 2
  /\ arrivals[2].messagesProcessed = Undefined
  /\ arrivals[3].messagesProcessed = 0
  /\ arrivals[3].status = "disconnected"
  /\ lastSource = "poll"
  /\ state.messagesProcessed = 2

\* C20: the elapsed-time interval exists only while a start time is present
\* and the status is none of connected, disconnected, error; in these three
\* statuses the elapsed time is 0.
ElapsedOnlyWhileConnecting ==
  /\ elapsedTimer =>
       /\ state.connectionStartTime # 0
       /\ state.status \notin {"connected", "disconnected", "error"}
  /\ state.status \in {"connected", "disconnected", "error"} => elapsedTime = 0

\* C20 witness: the interval runs in loading_chats and has ticked.
ElapsedOnlyWhileConnectingWitness ==
  /\ mounted
  /\ elapsedTimer
  /\ state.status = "loading_chats"
  /\ state.connectionStartTime = 1
  /\ elapsedTime = MaxElapsed

\* C21: while mounted the tip interval exists exactly in initializing,
\* qr_ready and loading_chats; a tick moves currentTip one position on,
\* modulo the 3 tips, so currentTip is always an index of WAITING_TIPS.
TipsRotate ==
  [][ /\ mounted' =>
           (tipTimer' <=> state'.status \in {"initializing", "qr_ready", "loading_chats"})
      /\ currentTip' \in 0..2
      /\ currentTip' # currentTip =>
           /\ tipTimer
           /\ currentTip' = IF currentTip = 2 THEN 0 ELSE currentTip + 1 ]_vars

\* C21 witness: in loading_chats the interval has ticked twice.
TipsRotateWitness ==
  /\ mounted
  /\ tipTimer
  /\ state.status = "loading_chats"
  /\ currentTip = 2

\* C22: while mounted the 55 s interval exists exactly in qr_ready with a
\* payload that starts with neither data: nor http; a payload applied in
\* qr_ready that changes status or qrCode is shown as it is, with no fetch,
\* when it is inline, and starts one fetch otherwise.
RefreshTimerByPayload ==
  [][ /\ mounted' =>
           (qrInterval' <=> /\ state'.status = "qr_ready"
                            /\ state'.qrCode \notin (DataPayloads \cup HttpPayloads))
      /\ ( /\ epoch' # epoch
           /\ state'.status = "qr_ready"
           /\ (state'.status # state.status \/ state'.qrCode # state.qrCode) ) =>
           IF state'.qrCode \in (DataPayloads \cup HttpPayloads)
           THEN qrFetch' = qrFetch /\ qrImageUrl' = state'.qrCode
           ELSE qrFetch' = qrFetch + 1 ]_vars

\* C22 witness: qr_ready holds an inline payload after a fetched image was
\* shown; no interval and no fetch is left.
RefreshTimerByPayloadWitness ==
  /\ mounted
  /\ state.status = "qr_ready"
  /\ state.qrCode = "data:A"
  /\ qrImageUrl = "data:A"
  /\ nextBlob = 2
  /\ ~qrInterval
  /\ qrFetch = 0

\* C23: a loadQr that fails changes neither the image held nor the snapshot,
\* revokes nothing and leaves the 55 s interval as it was.
ArtifactFailureIsSilent ==
  [][ (qrFetch' < qrFetch /\ nextBlob' = nextBlob) =>
        /\ qrImageUrl' = qrImageUrl
        /\ state' = state
        /\ revokeCalls' = revokeCalls
        /\ liveBlobs' = liveBlobs
        /\ qrInterval' = qrInterval ]_vars

\* C23 witness: the fetch issued on entering qr_ready failed; no image is
\* held and the interval is still set.
ArtifactFailureIsSilentWitness ==
  /\ mounted
  /\ state.status = "qr_ready"
  /\ state.qrCode = "A"
  /\ qrFetch = 0
  /\ nextBlob = 1
  /\ qrImageUrl = Null
  /\ qrInterval

\* C24: a completed loadQr, a refresh tick, an elapsed-time tick and a tip
\* tick leave the snapshot, the polling interval and the push connection
\* as they were; the snapshot changes only when a push event or the response
\* of a fetch is applied.
DerivedStepsLeaveSnapshot ==
  [][ /\ ( \/ qrFetch' # qrFetch
           \/ nextBlob' # nextBlob
           \/ elapsedTime' # elapsedTime
           \/ currentTip' # currentTip ) /\ epoch' = epoch =>
           /\ state' = state
           /\ pollInterval' = pollInterval
           /\ pollElapsed' = pollElapsed
           /\ openConns' = openConns
           /\ sseRef' = sseRef
           /\ timers' = timers
      /\ state' # state =>
           /\ epoch' # epoch
           /\ \/ lastSource' = "push" /\ sseRef \in openConns
              \/ lastSource' = "poll" /\ fetchLoud' + fetchQuiet' < fetchLoud + fetchQuiet ]_vars

\* C24 witness: with the status at qr_ready a fetched image is shown and the
\* elapsed time and the tip have ticked; the snapshot is the payload applied.
DerivedStepsLeaveSnapshotWitness ==
  /\ mounted
  /\ state = Snapshot("qr_ready", <<"A", Null, Null, 1>>, 0)
  /\ qrImageUrl = BlobUrls[1]
  /\ elapsedTime = 2
  /\ currentTip = 1
  /\ openConns = {1}
  /\ pollInterval = ShortPoll

\* C25: the unmount cancels the polling interval first, then closes the push
\* connection and cancels its retry, then releases the QR image and its
\* refresh interval, then stops the elapsed-time and tip intervals.
TeardownInStatedOrder ==
  ~mounted =>
    LET rank(x) == CASE x = "pollInterval" -> 1
                     [] x = "push" -> 2
                     [] x = "qrInterval" -> 3
                     [] OTHER -> 4
    IN /\ cleanupOrder # <<>>
       /\ \A i, j \in DOMAIN cleanupOrder :
            i < j => rank(cleanupOrder[i]) <= rank(cleanupOrder[j])
       /\ liveBlobs = {}

\* C26: a command handler never writes the snapshot: the steps that start a
\* command, settle its POST or fail it leave the snapshot as it is, and a
\* failed POST starts no fetch; the snapshot changes only by an applied
\* payload; while the component is mounted actionLoading is eventually
\* false again.
CommandsFireAndForget ==
  /\ [][ /\ cmdPost' # cmdPost => state' = state
         /\ (cmdPost' < cmdPost /\ cmdFetch' = cmdFetch) => fetchLoud' = fetchLoud
         /\ state' # state => epoch' # epoch ]_vars
  /\ ((actionLoading /\ mounted) ~> (~actionLoading \/ ~mounted))

\* C26 witness: a command ran to its end while the initial load was still
\* pending: its fetchStatus() applied a payload and actionLoading is false.
CommandsFireAndForgetWitness ==
  /\ mounted
  /\ lastSource = "poll"
  /\ fetchLoud = 1
  /\ cmdPost = 0
  /\ cmdFetch = 0
  /\ ~actionLoading
  /\ ~loading

\* C27: every payload applied, by push or by poll, publishes the payload's
\* own status, qrCode, user, error and connectionStartTime, and the payload's
\* count when that is present and not zero, else the count held before.
MergeRule ==
  [][ epoch' # epoch =>
        LET d == arrivals'[1] IN
        /\ state'.status = d.status
        /\ state'.qrCode = d.qrCode
        /\ state'.user = d.user
        /\ state'.error = d.error
        /\ state'.connectionStartTime = d.connectionStartTime
        /\ state'.messagesProcessed =
             IF d.messagesProcessed \in 1..(MaxCount + 1)
             THEN d.messagesProcessed
             ELSE state.messagesProcessed ]_vars

\* C27 witness: a poll applied a payload without user, error or count over a
\* snapshot that had them; only the count is left of the snapshot before.
MergeRuleWitness ==
  /\ mounted
  /\ lastSource = "poll"
  /\ arrivals = <<Snapshot("disconnected", Bare, Undefined)>>
  /\ state = Snapshot("disconnected", Bare, 2)

\* C28: a published count greater than zero is never followed by a published
\* count of zero, whatever the payloads and their statuses.
CountNeverBackToZero ==
  [][ state.messagesProcessed > 0 => state'.messagesProcessed > 0 ]_vars

\* C28 witness: a push with status disconnected and count 0 was applied and
\* the published count is still 1.
CountNeverBackToZeroWitness ==
  /\ mounted
  /\ lastSource = "push"
  /\ lastCount = 0
  /\ state.status = "disconnected"
  /\ state.messagesProcessed = 1

\* C29: while mounted either one push connection is open and no retry is
\* pending, or no connection is open and one retry is pending.
OpenOrRetrying ==
  mounted =>
    \/ Cardinality(openConns) = 1 /\ timers = {}
    \/ openConns = {} /\ Cardinality(timers) = 1

\* C29 witness: the second connection failed and its retry is pending.
OpenOrRetryingWitness ==
  /\ mounted
  /\ openConns = {}
  /\ timers = {2}
  /\ nextConn = 3

\* C30: an open push connection is the one sseRef holds, and with sseRef null
\* no connection is open.
RefTracksConnection ==
  /\ openConns # {} => openConns = {sseRef}
  /\ sseRef = 0 => openConns = {}

\* C30 witness: the first connection failed, which cleared sseRef, and sseRef
\* holds the second, open, connection; the timeout id of the retry is kept.
RefTracksConnectionWitness ==
  /\ mounted
  /\ sseRef = 2
  /\ openConns = {2}
  /\ reconnectTimeoutRef = 1
  /\ timers = {}

====
